---- MODULE Spec2Model ----
(***************************************************************************)
(* Model of base-action/src/openrouter.ts: the OpenRouter lifecycle        *)
(* orchestrator (configureOpenRouterEnvironment), the proxy supervisor     *)
(* (startOpenRouterProxy) and the helpers they call.                       *)
(*                                                                         *)
(* A JavaScript string is modelled as a sequence of atoms.  An atom is a   *)
(* TLA+ string standing for one character (":", " ", "\n", "{", ...) or    *)
(* for an indivisible run of ordinary characters ("Authorization", "k").   *)
(***************************************************************************)
EXTENDS Integers, Sequences, FiniteSets, TLC

(***************************************************************************)
(* Strings                                                                 *)
(***************************************************************************)
NL == "\n"
CR == "\r"
SP == " "
COLON == ":"
QUOTE == "\""
LBRACE == "{"
RBRACE == "}"
COMMA == ","

\* String.prototype.trim / the whitespace JSON.parse skips
IsWs(ch) == ch \in {SP, NL, CR, "\t"}

RECURSIVE TrimStart(_)
TrimStart(s) ==
    IF s = <<>> THEN <<>>
    ELSE IF IsWs(Head(s)) THEN TrimStart(Tail(s)) ELSE s

RECURSIVE TrimEnd(_)
TrimEnd(s) ==
    IF s = <<>> THEN <<>>
    ELSE IF IsWs(s[Len(s)]) THEN TrimEnd(SubSeq(s, 1, Len(s) - 1)) ELSE s

Trim(s) == TrimEnd(TrimStart(s))

\* String.prototype.toLowerCase on the atoms the model uses
LowerAtom(ch) ==
    CASE ch = "Authorization" -> "authorization"
      [] ch = "AUTHORIZATION" -> "authorization"
      [] ch = "HTTP-Referer" -> "http-referer"
      [] ch = "X-Title" -> "x-title"
      [] ch = "X-Test" -> "x-test"
      [] ch = "X-Custom" -> "x-custom"
      [] ch = "X" -> "x"
      [] ch = "Bearer" -> "bearer"
      [] OTHER -> ch

ToLower(s) == [i \in 1..Len(s) |-> LowerAtom(s[i])]

\* String.prototype.indexOf(ch): 0 stands for JavaScript's -1, positions are 1-based
RECURSIVE IndexFrom(_, _, _)
IndexFrom(s, ch, i) ==
    IF i > Len(s) THEN 0
    ELSE IF s[i] = ch THEN i ELSE IndexFrom(s, ch, i + 1)

IndexOf(s, ch) == IndexFrom(s, ch, 1)

\* String.prototype.split(/\r?\n/)
RECURSIVE SplitLinesAcc(_, _)
SplitLinesAcc(s, cur) ==
    IF s = <<>> THEN <<cur>>
    ELSE IF Head(s) = NL
         THEN <<cur>> \o SplitLinesAcc(Tail(s), <<>>)
         ELSE IF Head(s) = CR /\ Len(s) >= 2 /\ s[2] = NL
              THEN <<cur>> \o SplitLinesAcc(Tail(Tail(s)), <<>>)
              ELSE SplitLinesAcc(Tail(s), Append(cur, Head(s)))

SplitLines(s) == SplitLinesAcc(s, <<>>)

\* Array.prototype.join("\n") on strings
RECURSIVE JoinLines(_)
JoinLines(ls) ==
    IF ls = <<>> THEN <<>>
    ELSE IF Len(ls) = 1 THEN ls[1]
    ELSE ls[1] \o <<NL>> \o JoinLines(Tail(ls))

(***************************************************************************)
(* JSON.parse, for the texts the header parsers hand it.  A value is       *)
(* [kind, str, members, items]; kind is "string", "object", "array" or     *)
(* "literal" (null, true, false, a number).  The atoms of the model hold   *)
(* no backslash, so a JSON string has no escapes.                          *)
(***************************************************************************)
LBRACKET == "["
RBRACKET == "]"

JsonLiterals == {"null", "true", "false", "0", "1", "5"}

JsonFail == [ok |-> FALSE, next |-> 0, kind |-> "none", str |-> <<>>,
             members |-> <<>>, items |-> <<>>]

RECURSIVE SkipWs(_, _)
SkipWs(s, i) ==
    IF i > Len(s) THEN i
    ELSE IF IsWs(s[i]) THEN SkipWs(s, i + 1) ELSE i

\* a JSON string starting at the quote s[i]; control characters are not allowed in it
JsonString(s, i) ==
    LET j == IndexFrom(s, QUOTE, i + 1) IN
    IF j = 0 THEN JsonFail
    ELSE LET body == SubSeq(s, i + 1, j - 1) IN
         IF \E k \in 1..Len(body) : body[k] \in {NL, CR, "\t"} THEN JsonFail
         ELSE [ok |-> TRUE, next |-> j + 1, kind |-> "string", str |-> body,
               members |-> <<>>, items |-> <<>>]

\* an object keeps one member per key: a repeated key keeps its first position
\* and takes the last value
RECURSIVE PutMember(_, _, _)
PutMember(ms, k, v) ==
    IF ms = <<>> THEN <<[key |-> k, val |-> v]>>
    ELSE IF Head(ms).key = k THEN <<[key |-> k, val |-> v]>> \o Tail(ms)
    ELSE <<Head(ms)>> \o PutMember(Tail(ms), k, v)

RECURSIVE JsonValue(_, _)
RECURSIVE JsonMembers(_, _, _)
RECURSIVE JsonItems(_, _, _)

\* members of an object, from the position of a member's key on
JsonMembers(s, i, acc) ==
    LET i0 == SkipWs(s, i) IN
    IF i0 > Len(s) \/ s[i0] # QUOTE THEN JsonFail
    ELSE LET k == JsonString(s, i0) IN
         IF ~k.ok THEN JsonFail
         ELSE LET c == SkipWs(s, k.next) IN
              IF c > Len(s) \/ s[c] # COLON THEN JsonFail
              ELSE LET v == JsonValue(s, c + 1) IN
                   IF ~v.ok THEN JsonFail
                   ELSE LET e == SkipWs(s, v.next)
                            acc2 == PutMember(acc, k.str,
                                       [kind |-> v.kind, str |-> v.str])
                        IN
                        IF e > Len(s) THEN JsonFail
                        ELSE IF s[e] = COMMA THEN JsonMembers(s, e + 1, acc2)
                        ELSE IF s[e] = RBRACE
                             THEN [ok |-> TRUE, next |-> e + 1, kind |-> "object",
                                   str |-> <<>>, members |-> acc2, items |-> <<>>]
                        ELSE JsonFail

\* elements of an array, from the position of an element on
JsonItems(s, i, acc) ==
    LET v == JsonValue(s, i) IN
    IF ~v.ok THEN JsonFail
    ELSE LET e == SkipWs(s, v.next)
             acc2 == Append(acc, [kind |-> v.kind, str |-> v.str])
         IN
         IF e > Len(s) THEN JsonFail
         ELSE IF s[e] = COMMA THEN JsonItems(s, e + 1, acc2)
         ELSE IF s[e] = RBRACKET
              THEN [ok |-> TRUE, next |-> e + 1, kind |-> "array",
                    str |-> <<>>, members |-> <<>>, items |-> acc2]
         ELSE JsonFail

JsonValue(s, i) ==
    LET i0 == SkipWs(s, i) IN
    IF i0 > Len(s) THEN JsonFail
    ELSE IF s[i0] = QUOTE THEN JsonString(s, i0)
    ELSE IF s[i0] = LBRACE
         THEN LET j == SkipWs(s, i0 + 1) IN
              IF j <= Len(s) /\ s[j] = RBRACE
              THEN [ok |-> TRUE, next |-> j + 1, kind |-> "object",
                    str |-> <<>>, members |-> <<>>, items |-> <<>>]
              ELSE JsonMembers(s, i0 + 1, <<>>)
    ELSE IF s[i0] = LBRACKET
         THEN LET j == SkipWs(s, i0 + 1) IN
              IF j <= Len(s) /\ s[j] = RBRACKET
              THEN [ok |-> TRUE, next |-> j + 1, kind |-> "array",
                    str |-> <<>>, members |-> <<>>, items |-> <<>>]
              ELSE JsonItems(s, i0 + 1, <<>>)
    ELSE IF s[i0] \in JsonLiterals
         THEN [ok |-> TRUE, next |-> i0 + 1, kind |-> "literal",
               str |-> <<s[i0]>>, members |-> <<>>, items |-> <<>>]
    ELSE JsonFail

\* JSON.parse(text): ok is FALSE where JSON.parse throws a SyntaxError
JsonParse(s) ==
    LET v == JsonValue(s, 1) IN
    IF v.ok /\ SkipWs(s, v.next) > Len(s) THEN v ELSE JsonFail

(***************************************************************************)
(* The orchestrator's header map: Map<string, HeaderEntry>, a sequence of  *)
(* [key, name, value] in insertion order.                                  *)
(***************************************************************************)
\* Map.prototype.set: an existing key keeps its position
RECURSIVE MapSet(_, _, _, _)
MapSet(m, key, name, value) ==
    IF m = <<>> THEN <<[key |-> key, name |-> name, value |-> value]>>
    ELSE IF Head(m).key = key
         THEN <<[key |-> key, name |-> name, value |-> value]>> \o Tail(m)
    ELSE <<Head(m)>> \o MapSet(Tail(m), key, name, value)

setHeader_Appends(headers, name, value) ==
    Append(SelectSeq(headers, LAMBDA h : h.key # ToLower(name)),
           [key |-> ToLower(name), name |-> name, value |-> value])

\* lines 58-64
setHeader(headers, name, value) == MapSet(headers, ToLower(name), name, value)

\* the loop over Object.entries(parsed)
RECURSIVE HeadersFromMembers(_, _)
HeadersFromMembers(ms, map) ==
    IF ms = <<>> THEN map
    ELSE LET m == Head(ms) IN
         HeadersFromMembers(Tail(ms),
            IF m.val.kind = "string" /\ Len(Trim(m.key)) > 0
            THEN MapSet(map, ToLower(m.key), m.key, Trim(m.val.str))
            ELSE map)

\* the loop over the trimmed non-empty lines
RECURSIVE HeadersFromLines(_, _)
HeadersFromLines(ls, map) ==
    IF ls = <<>> THEN map
    ELSE LET line == Trim(Head(ls))
             separatorIndex == IndexOf(line, COLON)
             name == Trim(SubSeq(line, 1, separatorIndex - 1))
             value == Trim(SubSeq(line, separatorIndex + 1, Len(line)))
         IN
         HeadersFromLines(Tail(ls),
            IF Len(line) = 0 \/ separatorIndex = 0 \/ Len(name) = 0 \/ Len(value) = 0
            THEN map
            ELSE MapSet(map, ToLower(name), name, value))

\* parseHeaderLines of the orchestrator; raw is a string, or Undefined
Undefined == <<"undefined", "undefined">>

parseHeaderLines(raw) ==
    IF raw = Undefined \/ raw = <<>> THEN <<>>
    ELSE LET trimmedRaw == Trim(raw) IN
         IF Len(trimmedRaw) = 0 THEN <<>>
         ELSE LET parsed == IF trimmedRaw[1] = LBRACE /\ trimmedRaw[Len(trimmedRaw)] = RBRACE
                            THEN JsonParse(trimmedRaw) ELSE JsonFail
              IN
              IF parsed.ok THEN HeadersFromMembers(parsed.members, <<>>)
              ELSE HeadersFromLines(SplitLines(trimmedRaw), <<>>)

serializeHeaders(headers) ==
    JoinLines([i \in 1..Len(headers) |->
                 headers[i].name \o <<COLON, SP>> \o headers[i].value])

\* the loop "for (const [key, entry] of extraHeaders.entries()) headers.set(key, entry)"
RECURSIVE OverlayHeaders(_, _)
OverlayHeaders(headers, extra) ==
    IF extra = <<>> THEN headers
    ELSE OverlayHeaders(MapSet(headers, Head(extra).key, Head(extra).name, Head(extra).value),
                        Tail(extra))

(***************************************************************************)
(* The supervisor's header set: a Record<string, string>, a sequence of    *)
(* [name, value] in the order Object.entries gives.  Names are compared as *)
(* written.  An own property whose name is an array index comes before the *)
(* others, in ascending order.                                             *)
(***************************************************************************)
BACKSLASH == "\\"

IndexAtoms == <<"0", "1", "2", "3", "4", "5">>

IsIndexKey(k) == Len(k) = 1 /\ \E i \in 1..Len(IndexAtoms) : IndexAtoms[i] = k[1]

IndexRank(k) == CHOOSE i \in 1..Len(IndexAtoms) : IndexAtoms[i] = k[1]

\* obj[name] = value
ObjSet(o, name, value) ==
    LET e == [name |-> name, value |-> value] IN
    IF \E i \in 1..Len(o) : o[i].name = name
    THEN [i \in 1..Len(o) |-> IF o[i].name = name THEN e ELSE o[i]]
    ELSE IF IsIndexKey(name)
    THEN LET n == Cardinality({i \in 1..Len(o) :
                     IsIndexKey(o[i].name) /\ IndexRank(o[i].name) < IndexRank(name)})
         IN SubSeq(o, 1, n) \o <<e>> \o SubSeq(o, n + 1, Len(o))
    ELSE Append(o, e)

\* Object.entries of a parsed JSON value that is not null: the members of an
\* object, the elements of an array and the characters of a string under their
\* indices, nothing for a number or a boolean
ObjectEntries(v) ==
    CASE v.kind = "object" -> v.members
      [] v.kind = "array" ->
            [i \in 1..Len(v.items) |-> [key |-> <<IndexAtoms[i]>>, val |-> v.items[i]]]
      [] v.kind = "string" ->
            [i \in 1..Len(v.str) |->
                [key |-> <<IndexAtoms[i]>>, val |-> [kind |-> "string", str |-> <<v.str[i]>>]]]
      [] OTHER -> <<>>

\* lines 295-299
RECURSIVE ProxyHeadersFromEntries(_, _)
ProxyHeadersFromEntries(ms, entries) ==
    IF ms = <<>> THEN entries
    ELSE LET m == Head(ms) IN
         ProxyHeadersFromEntries(Tail(ms),
            IF m.val.kind = "string" /\ Len(Trim(m.key)) > 0
            THEN ObjSet(entries, Trim(m.key), Trim(m.val.str))
            ELSE entries)

\* lines 305-316
RECURSIVE ProxyHeadersFromLines(_, _)
ProxyHeadersFromLines(ls, headers) ==
    IF ls = <<>> THEN headers
    ELSE LET line == Trim(Head(ls))
             idx == IndexOf(line, COLON)
             name == Trim(SubSeq(line, 1, idx - 1))
             value == Trim(SubSeq(line, idx + 1, Len(line)))
         IN
         ProxyHeadersFromLines(Tail(ls),
            IF Len(line) = 0 \/ idx = 0 \/ Len(name) = 0 \/ Len(value) = 0
            THEN headers
            ELSE ObjSet(headers, name, value))

\* parseHeaderLines of the supervisor, lines 282-318.  Object.entries(null)
\* throws inside the try, so a JSON null goes on to the lines like a text
\* that is not JSON
proxyParseHeaderLines(raw) ==
    IF raw = Undefined \/ raw = <<>> THEN <<>>
    ELSE LET trimmed == Trim(raw) IN
         IF Len(trimmed) = 0 THEN <<>>
         ELSE LET parsed == JsonParse(trimmed) IN
              IF parsed.ok /\ ~(parsed.kind = "literal" /\ parsed.str = <<"null">>)
              THEN ProxyHeadersFromEntries(ObjectEntries(parsed), <<>>)
              ELSE ProxyHeadersFromLines(SplitLines(trimmed), <<>>)

\* { ...spread }: the properties of the spread object are set in its order
RECURSIVE ObjSpread(_, _)
ObjSpread(o, spread) ==
    IF spread = <<>> THEN o
    ELSE ObjSpread(ObjSet(o, Head(spread).name, Head(spread).value), Tail(spread))

(***************************************************************************)
(* The host process: process.env, the module-level flag, the calls in      *)
(* flight, the temp dirs, the child processes, the registered cleanups.    *)
(***************************************************************************)
VARIABLES
    env,               \* process.env: variable name -> string, or Undefined
    proxyInitialized,  \* the module-level flag
    calls,             \* call id -> the call's position and locals
    dirs,              \* temp dirs made by mkdtemp, in order: [owner, config]
    procs,             \* subordinate processes spawned, in order: [owner, alive, killed, taken]
    cleanups,          \* registerCleanup calls, in order: the process each stop() targets
    installs,          \* runs of the dependency install, in order: [owner, code]
    warnings,          \* console.warn calls of the orchestrator
    lastStop,          \* the last stop() call made through a handle: [proc, before, threw]
    host               \* the host process: running, in a signal handler, or gone

vars == <<env, proxyInitialized, calls, dirs, procs, cleanups, installs, warnings,
          lastStop, host>>

\* bounds of the model
MaxCalls == 2

Calls == 1..MaxCalls

\* line 321
maxAttempts == 30

\* line 270
MaxPortRetries == 5

USE_OPENROUTER == "CLAUDE_CODE_USE_OPENROUTER"
OPENROUTER_API_KEY == "OPENROUTER_API_KEY"
OPENROUTER_BASE_URL == "OPENROUTER_BASE_URL"
DISABLE_PROXY == "CLAUDE_CODE_OPENROUTER_DISABLE_PROXY"
OPENROUTER_SITE_URL == "OPENROUTER_SITE_URL"
OPENROUTER_APP_TITLE == "OPENROUTER_APP_TITLE"
OPENROUTER_EXTRA_HEADERS == "OPENROUTER_EXTRA_HEADERS"
ANTHROPIC_BASE_URL == "ANTHROPIC_BASE_URL"
ANTHROPIC_API_KEY == "ANTHROPIC_API_KEY"
ANTHROPIC_CUSTOM_HEADERS == "ANTHROPIC_CUSTOM_HEADERS"
ANTHROPIC_MODEL == "ANTHROPIC_MODEL"
INPUT_CLAUDE_ARGS == "INPUT_CLAUDE_ARGS"
OPENROUTER_ADDITIONAL_MODELS == "OPENROUTER_ADDITIONAL_MODELS"

EnvNames == {USE_OPENROUTER, OPENROUTER_API_KEY, OPENROUTER_BASE_URL, DISABLE_PROXY,
             OPENROUTER_SITE_URL, OPENROUTER_APP_TITLE, OPENROUTER_EXTRA_HEADERS,
             ANTHROPIC_BASE_URL, ANTHROPIC_API_KEY, ANTHROPIC_CUSTOM_HEADERS,
             ANTHROPIC_MODEL, INPUT_CLAUDE_ARGS, OPENROUTER_ADDITIONAL_MODELS}

\* the variables the orchestrator writes
Downstream == {ANTHROPIC_BASE_URL, ANTHROPIC_API_KEY, ANTHROPIC_CUSTOM_HEADERS}

ONE == <<"1">>
DEFAULT_REMOTE_BASE_URL == <<"https://openrouter.ai/api/v1">>

\* JavaScript's falsy strings: undefined and ""
Falsy(v) == v = Undefined \/ v = <<>>

\* x?.trim() || fallback
TrimOr(v, fallback) == IF Falsy(v) \/ Trim(v) = <<>> THEN fallback ELSE Trim(v)

\* x?.trim(), where undefined stays undefined
OptTrim(v) == IF v = Undefined THEN Undefined ELSE Trim(v)

(***************************************************************************)
(* Calls.  A call is one invocation of configureOpenRouterEnvironment      *)
(* (kind "configure") or of the exported startOpenRouterProxy (kind        *)
(* "start").  pc is the await the call is suspended at; every action below *)
(* is one synchronous run of the event loop, from one await to the next.   *)
(* A call that has thrown keeps only what outlives it: its outcome and the *)
(* temp dir and child process it made.                                     *)
(***************************************************************************)
IdleCall == [kind |-> "none", pc |-> "idle", ret |-> "none", apiKey |-> Undefined,
             baseUrl |-> Undefined, tries |-> 0, port |-> "none", dir |-> 0,
             masterKey |-> Undefined, proc |-> 0, attempt |-> 0, response |-> "none",
             socket |-> "none", err |-> "none"]

\* ports the operating system may hand out for a bind to port 0
Ports == {"41001", "41002"}

\* outcomes of Math.random().toString(36).slice(2)
Rand == {"r1", "r2"}

InFlight(c) == calls[c].pc \notin {"idle", "returned", "threw"}

\* call ids are handed out in order
NextCall(c) ==
    /\ calls[c].pc = "idle"
    /\ \A d \in Calls : d < c => calls[d].pc # "idle"

Return(c, kind, ret) == [calls EXCEPT ![c].kind = kind, ![c].pc = "returned", ![c].ret = ret]

Throw(c, ret) ==
    [calls EXCEPT ![c].pc = "threw", ![c].ret = ret, ![c].apiKey = Undefined,
                  ![c].baseUrl = Undefined, ![c].port = "none",
                  ![c].masterKey = Undefined]

AlreadyInitialized_Never == FALSE

\* line 125
AlreadyInitialized == proxyInitialized

FeatureEnabled_Truthy(e) == ~Falsy(e[USE_OPENROUTER])

\* line 129
FeatureEnabled(e) == e[USE_OPENROUTER] = ONE

KeyMissing_UndefinedOnly(key) == key = Undefined

\* line 134: !openRouterKey
KeyMissing(key) == Falsy(key)

\* line 144
DirectMode(e) == e[DISABLE_PROXY] = ONE

StartDisabled_Never(e) == FALSE

\* line 350
StartDisabled(e) == e[DISABLE_PROXY] = ONE

remoteBaseUrl_NoTrim(e) ==
    IF Falsy(e[OPENROUTER_BASE_URL]) THEN DEFAULT_REMOTE_BASE_URL ELSE e[OPENROUTER_BASE_URL]

\* lines 141-142
remoteBaseUrl(e) == TrimOr(e[OPENROUTER_BASE_URL], DEFAULT_REMOTE_BASE_URL)

DirectEnv_ExtrasFirst(e) ==
    LET openRouterKey == e[OPENROUTER_API_KEY]
        h0 == OverlayHeaders(parseHeaderLines(e[ANTHROPIC_CUSTOM_HEADERS]),
                             parseHeaderLines(e[OPENROUTER_EXTRA_HEADERS]))
        h1 == setHeader(h0, <<"Authorization">>, <<"Bearer", SP>> \o openRouterKey)
        referer == OptTrim(e[OPENROUTER_SITE_URL])
        h2 == IF Falsy(referer) THEN h1 ELSE setHeader(h1, <<"HTTP-Referer">>, referer)
        title == OptTrim(e[OPENROUTER_APP_TITLE])
        h3 == IF Falsy(title) THEN h2 ELSE setHeader(h2, <<"X-Title">>, title)
    IN
    [e EXCEPT ![ANTHROPIC_API_KEY] = IF Falsy(@) THEN openRouterKey ELSE @,
              ![ANTHROPIC_CUSTOM_HEADERS] = serializeHeaders(h3),
              ![ANTHROPIC_BASE_URL] = remoteBaseUrl(e)]

\* lines 145-168: the direct branch's writes to process.env
DirectEnv(e) ==
    LET openRouterKey == e[OPENROUTER_API_KEY]
        h0 == parseHeaderLines(e[ANTHROPIC_CUSTOM_HEADERS])
        h1 == setHeader(h0, <<"Authorization">>, <<"Bearer", SP>> \o openRouterKey)
        referer == OptTrim(e[OPENROUTER_SITE_URL])
        h2 == IF Falsy(referer) THEN h1 ELSE setHeader(h1, <<"HTTP-Referer">>, referer)
        title == OptTrim(e[OPENROUTER_APP_TITLE])
        h3 == IF Falsy(title) THEN h2 ELSE setHeader(h2, <<"X-Title">>, title)
        extraHeaders == parseHeaderLines(e[OPENROUTER_EXTRA_HEADERS])
        h4 == OverlayHeaders(h3, extraHeaders)
    IN
    [e EXCEPT ![ANTHROPIC_API_KEY] = IF Falsy(@) THEN openRouterKey ELSE @,
              ![ANTHROPIC_CUSTOM_HEADERS] = serializeHeaders(h4),
              ![ANTHROPIC_BASE_URL] = remoteBaseUrl(e)]

\* lines 350-356: startOpenRouterProxy up to its first await, the bind of
\* getAvailablePort
StartEnter(c, kind, apiKey, baseUrl) ==
    IF StartDisabled(env)
    THEN calls' = [calls EXCEPT ![c].kind = kind, ![c].pc = "threw", ![c].ret = "E_disabled"]
    ELSE calls' = [calls EXCEPT ![c].kind = kind, ![c].pc = "port",
                                ![c].apiKey = apiKey, ![c].baseUrl = baseUrl,
                                ![c].socket = "binding"]

\* lines 173-189: the proxied branch up to the await of startOpenRouterProxy
ConfigureProxied_EarlyFlag(c) ==
    /\ StartEnter(c, "configure", env[OPENROUTER_API_KEY], remoteBaseUrl(env))
    /\ proxyInitialized' = TRUE
    /\ UNCHANGED <<env, warnings>>

ConfigureProxied(c) ==
    /\ StartEnter(c, "configure", env[OPENROUTER_API_KEY], remoteBaseUrl(env))
    /\ UNCHANGED <<env, proxyInitialized, warnings>>

\* lines 124-181: configureOpenRouterEnvironment up to its first await
Configure(c) ==
    /\ NextCall(c)
    /\ IF AlreadyInitialized
       THEN /\ calls' = Return(c, "configure", "already")
            /\ UNCHANGED <<env, proxyInitialized, warnings>>
       ELSE IF ~FeatureEnabled(env)
       THEN /\ calls' = Return(c, "configure", "flagoff")
            /\ UNCHANGED <<env, proxyInitialized, warnings>>
       ELSE IF KeyMissing(env[OPENROUTER_API_KEY])
       THEN /\ warnings' = warnings + 1
            /\ calls' = Return(c, "configure", "nokey")
            /\ UNCHANGED <<env, proxyInitialized>>
       ELSE IF DirectMode(env)
       THEN /\ env' = DirectEnv(env)
            /\ proxyInitialized' = TRUE
            /\ calls' = Return(c, "configure", "direct")
            /\ UNCHANGED warnings
       ELSE ConfigureProxied(c)
    /\ UNCHANGED <<dirs, procs, cleanups, installs, lastStop, host>>

\* the host calls the exported startOpenRouterProxy itself, with the options the
\* orchestrator would pass
StartDirect(c) ==
    /\ NextCall(c)
    /\ ~KeyMissing(env[OPENROUTER_API_KEY])
    /\ StartEnter(c, "start", env[OPENROUTER_API_KEY], remoteBaseUrl(env))
    /\ UNCHANGED <<env, proxyInitialized, dirs, procs, cleanups, installs, warnings,
                   lastStop, host>>

(***************************************************************************)
(* getAvailablePort, lines 251-280                                         *)
(***************************************************************************)
\* the "listening" event: the address is read and server.close(cb) is called
PortListening(c, port) ==
    /\ calls[c].pc = "port"
    /\ calls' = [calls EXCEPT ![c].pc = "portclose", ![c].port = port,
                              ![c].socket = "listening"]
    /\ UNCHANGED <<env, proxyInitialized, dirs, procs, cleanups, installs, warnings,
                   lastStop, host>>

\* the close callback resolves the port; startOpenRouterProxy goes on to mkdtemp
PortClosed(c) ==
    /\ calls[c].pc = "portclose"
    /\ calls' = [calls EXCEPT ![c].pc = "mkdtemp", ![c].tries = 0,
                              ![c].socket = "closed"]
    /\ UNCHANGED <<env, proxyInitialized, dirs, procs, cleanups, installs, warnings,
                   lastStop, host>>

\* errors a bind to 127.0.0.1:0 can end with
BindErrors == {"EADDRNOTAVAIL", "EMFILE"}

BudgetExhausted_AtFive(attempts) == attempts >= MaxPortRetries

\* line 270
BudgetExhausted(attempts) == attempts > MaxPortRetries

\* the "error" event: close, count the attempt, reject with this event's error
\* or arm the retry timer
PortError(c, err) ==
    /\ calls[c].pc = "port"
    /\ LET attempts == calls[c].tries + 1 IN
       calls' = IF BudgetExhausted(attempts)
                THEN [Throw(c, "E_port") EXCEPT ![c].tries = attempts,
                                                ![c].socket = "closed", ![c].err = err]
                ELSE [calls EXCEPT ![c].tries = attempts, ![c].pc = "portretry",
                                   ![c].socket = "closed"]
    /\ UNCHANGED <<env, proxyInitialized, dirs, procs, cleanups, installs, warnings,
                   lastStop, host>>

\* setTimeout(tryListen, 100) fires
PortRetry(c) ==
    /\ calls[c].pc = "portretry"
    /\ calls' = [calls EXCEPT ![c].pc = "port", ![c].socket = "binding"]
    /\ UNCHANGED <<env, proxyInitialized, dirs, procs, cleanups, installs, warnings,
                   lastStop, host>>

(***************************************************************************)
(* startOpenRouterProxy, lines 357-453                                     *)
(***************************************************************************)
\* lines 360-364: the header set of the config
HeaderEntries(siteUrl, appTitle, extraHeaders) ==
    ObjSpread(
        << [name |-> <<"HTTP-Referer">>,
            value |-> TrimOr(siteUrl, <<"https://github.com/anthropics">>)],
           [name |-> <<"X-Title">>,
            value |-> TrimOr(appTitle, <<"Claude Code OpenRouter">>)] >>,
        proxyParseHeaderLines(extraHeaders))

\* the replacement of line 383, the JavaScript literal '\"': a backslash before
\* a quote in a string literal stands for the quote alone
QuoteReplacement == <<QUOTE>>

\* value.replace(/"/g, '\"'), line 383
RECURSIVE ReplaceQuotes(_)
ReplaceQuotes(value) ==
    IF value = <<>> THEN <<>>
    ELSE (IF Head(value) = QUOTE THEN QuoteReplacement ELSE <<Head(value)>>)
             \o ReplaceQuotes(Tail(value))

\* lines 379-383: one line of headerYaml
HeaderYamlLine(e) ==
    <<"        ">> \o e.name \o <<COLON, SP, QUOTE>> \o ReplaceQuotes(e.value) \o <<QUOTE>>

\* lines 377-384: the lines under extra_headers of every model
HeaderYaml(entries) == [i \in 1..Len(entries) |-> HeaderYamlLine(entries[i])]

(***************************************************************************)
(* The model list, lines 78-95, 173-179 and 366-375.  A Set is modelled as *)
(* the sequence of its elements in insertion order.                        *)
(***************************************************************************)
\* lines 213-220
DEFAULT_MODELS ==
    << <<"anthropic/claude-sonnet-4">>,
       <<"anthropic/claude-3.5-sonnet">>,
       <<"anthropic/claude-3.5-haiku">>,
       <<"anthropic/claude-3.5-haiku-20241022">>,
       <<"anthropic/claude-3.5-sonnet-20241022">>,
       <<"anthropic/claude-3-opus-20240229">> >>

SetAdd_Appends(set, m) == Append(set, m)

\* Set.prototype.add
SetAdd(set, m) ==
    IF \E i \in 1..Len(set) : set[i] = m THEN set ELSE Append(set, m)

\* new Set(iterable), and forEach(add) on a Set
RECURSIVE SetAddAll(_, _)
SetAddAll(set, ms) ==
    IF ms = <<>> THEN set ELSE SetAddAll(SetAdd(set, Head(ms)), Tail(ms))

\* the end of the run of non-whitespace atoms that starts at s[i]
RECURSIVE WordEnd(_, _)
WordEnd(s, i) ==
    IF i + 1 > Len(s) \/ IsWs(s[i + 1]) THEN i ELSE WordEnd(s, i + 1)

\* args.match(/--model\s+([^\s]+)/) from position i on
RECURSIVE MatchModelFrom(_, _)
MatchModelFrom(s, i) ==
    IF i > Len(s) THEN Undefined
    ELSE IF s[i] = "--model" /\ i + 1 <= Len(s) /\ IsWs(s[i + 1])
                             /\ SkipWs(s, i + 1) <= Len(s)
         THEN SubSeq(s, SkipWs(s, i + 1), WordEnd(s, SkipWs(s, i + 1)))
         ELSE MatchModelFrom(s, i + 1)

\* lines 78-85
extractModelFromClaudeArgs(args) ==
    IF Falsy(args) THEN Undefined ELSE MatchModelFrom(args, 1)

\* lines 173-175
PreferredModel(e) ==
    IF ~Falsy(OptTrim(e[ANTHROPIC_MODEL]))
    THEN OptTrim(e[ANTHROPIC_MODEL])
    ELSE extractModelFromClaudeArgs(e[INPUT_CLAUDE_ARGS])

\* String.prototype.split(/[\n,]/)
RECURSIVE SplitModelsAcc(_, _)
SplitModelsAcc(s, cur) ==
    IF s = <<>> THEN <<cur>>
    ELSE IF Head(s) \in {NL, COMMA}
         THEN <<cur>> \o SplitModelsAcc(Tail(s), <<>>)
         ELSE SplitModelsAcc(Tail(s), Append(cur, Head(s)))

\* map(trim) and filter(length > 0)
TrimmedNonEmpty(ms) ==
    SelectSeq([i \in 1..Len(ms) |-> Trim(ms[i])], LAMBDA m : m # <<>>)

\* lines 87-95
parseAdditionalModels(raw) ==
    IF Falsy(raw) THEN <<>> ELSE TrimmedNonEmpty(SplitModelsAcc(raw, <<>>))

\* lines 366-373, and Array.from(allModels) of line 375
AllModels(preferredModel, additionalModels) ==
    LET defaults == SetAddAll(<<>>, DEFAULT_MODELS)
        preferred == IF Falsy(preferredModel) THEN defaults
                     ELSE SetAdd(defaults, preferredModel)
    IN SetAddAll(preferred, TrimmedNonEmpty(additionalModels))

\* lines 358-406: what the config file holds of the credentials, of the
\* headers and of the models.  The options were read from process.env at
\* lines 173-188
Config(c, masterKey) ==
    [apiKey |-> calls[c].apiKey, baseUrl |-> calls[c].baseUrl, masterKey |-> masterKey,
     headers |-> HeaderYaml(HeaderEntries(env[OPENROUTER_SITE_URL],
                                          env[OPENROUTER_APP_TITLE],
                                          env[OPENROUTER_EXTRA_HEADERS])),
     models |-> AllModels(PreferredModel(env),
                          parseAdditionalModels(env[OPENROUTER_ADDITIONAL_MODELS]))]

\* a temp dir whose config file is not written yet
NoConfig == [apiKey |-> Undefined, baseUrl |-> Undefined, masterKey |-> Undefined,
             headers |-> <<>>, models |-> <<>>]

\* mkdtemp resolves: lines 357-409, up to the await of writeFile
MkdtempOk(c, r) ==
    /\ calls[c].pc = "mkdtemp"
    /\ dirs' = Append(dirs, [owner |-> c, config |-> NoConfig])
    /\ calls' = [calls EXCEPT ![c].pc = "write", ![c].dir = Len(dirs) + 1,
                              ![c].masterKey = <<"sk-litellm-proxy-", r>>]
    /\ UNCHANGED <<env, proxyInitialized, procs, cleanups, installs, warnings,
                   lastStop, host>>

MkdtempFail(c) ==
    /\ calls[c].pc = "mkdtemp"
    /\ calls' = Throw(c, "E_mkdtemp")
    /\ UNCHANGED <<env, proxyInitialized, dirs, procs, cleanups, installs, warnings,
                   lastStop, host>>

\* writeFile resolves: line 411, installProxyDependency spawns the install
WriteOk(c) ==
    /\ calls[c].pc = "write"
    /\ dirs' = [dirs EXCEPT ![calls[c].dir].config = Config(c, calls[c].masterKey)]
    /\ installs' = Append(installs, [owner |-> c, code |-> "running"])
    /\ calls' = [calls EXCEPT ![c].pc = "install"]
    /\ UNCHANGED <<env, proxyInitialized, procs, cleanups, warnings,
                   lastStop, host>>

WriteFail(c) ==
    /\ calls[c].pc = "write"
    /\ calls' = Throw(c, "E_write")
    /\ UNCHANGED <<env, proxyInitialized, dirs, procs, cleanups, installs, warnings,
                   lastStop, host>>

\* exit codes of the install: 0, a failure, or null when a signal ended it
ExitCodes == {"0", "1", "null"}

InstallSucceeded_NotNull(code) == code # "null"

\* line 238
InstallSucceeded(code) == code = "0"

\* the install run of call c
InstallOf(c) == CHOOSE i \in 1..Len(installs) : installs[i].owner = c

\* the install's "exit" event: lines 237-247, then on success lines 413-442 up
\* to the first fetch of waitForProxy
InstallExit(c, code) ==
    /\ calls[c].pc = "install"
    /\ installs' = [installs EXCEPT ![InstallOf(c)].code = code]
    /\ IF InstallSucceeded(code)
       THEN /\ procs' = Append(procs, [owner |-> c, alive |-> TRUE, killed |-> FALSE,
                                         taken |-> FALSE])
            /\ calls' = [calls EXCEPT ![c].pc = "fetch", ![c].proc = Len(procs) + 1,
                                      ![c].attempt = 0]
       ELSE /\ calls' = Throw(c, "E_install")
            /\ UNCHANGED procs
    /\ UNCHANGED <<env, proxyInitialized, dirs, cleanups, warnings,
                   lastStop, host>>

\* the install's "error" event (python3 could not be spawned): line 236
InstallError(c) ==
    /\ calls[c].pc = "install"
    /\ installs' = [installs EXCEPT ![InstallOf(c)].code = "error"]
    /\ calls' = Throw(c, "E_install")
    /\ UNCHANGED <<env, proxyInitialized, dirs, procs, cleanups, warnings,
                   lastStop, host>>

(***************************************************************************)
(* The subordinate process and waitForProxy, lines 320-335                 *)
(***************************************************************************)
\* how a fetch of /health can settle: a subordinate that runs refuses the
\* connection until it has bound the port ("error"), answers a non-2xx status
\* ("notok") or answers 200 ("ok"); nothing listens for one that has exited,
\* unless another process took the port, and then that process answers
Responses(pr) == IF pr.alive \/ pr.taken THEN {"error", "notok", "ok"} ELSE {"error"}

ResponseReady_AnyResponse(r) == r # "error"

\* line 326
ResponseReady(r) == r = "ok"

\* the subordinate exits, by itself or on a signal
ProcExit(p) ==
    /\ p \in 1..Len(procs)
    /\ procs[p].alive
    /\ procs' = [procs EXCEPT ![p].alive = FALSE]
    /\ UNCHANGED <<env, proxyInitialized, calls, dirs, cleanups, installs, warnings,
                   lastStop, host>>

\* the port getAvailablePort reported free was taken by another process
\* before the subordinate bound it: the subordinate's bind fails and it exits
\* with a non-zero code, line 434 logs it
ProcBindFail(p) ==
    /\ p \in 1..Len(procs)
    /\ procs[p].alive
    /\ ~procs[p].killed
    /\ calls[procs[p].owner].proc = p
    /\ calls[procs[p].owner].pc \in {"fetch", "delay"}
    /\ procs' = [procs EXCEPT ![p].alive = FALSE, ![p].taken = TRUE]
    /\ UNCHANGED <<env, proxyInitialized, calls, dirs, cleanups, installs, warnings,
                   lastStop, host>>

\* the pending fetch settles: lines 325-332, and on a ready response lines
\* 444-452, the handle is returned.  A response that is not ready is dropped
\* with the try block it is scoped to
FetchSettle(c, r) ==
    /\ calls[c].pc = "fetch"
    /\ r \in Responses(procs[calls[c].proc])
    /\ calls' = IF ResponseReady(r)
                THEN IF calls[c].kind = "start"
                     THEN [calls EXCEPT ![c].pc = "returned", ![c].ret = "handle",
                                        ![c].response = r, ![c].attempt = 0]
                     ELSE [calls EXCEPT ![c].pc = "handle", ![c].response = r,
                                        ![c].attempt = 0]
                ELSE [calls EXCEPT ![c].pc = "delay"]
    /\ UNCHANGED <<env, proxyInitialized, dirs, procs, cleanups, installs, warnings,
                   lastStop, host>>

\* the subordinate accepts the connection and sends no response: the fetch,
\* which carries no timeout or abort signal, stays pending
FetchHang(c) ==
    /\ calls[c].pc = "fetch"
    /\ procs[calls[c].proc].alive
    /\ calls' = [calls EXCEPT ![c].pc = "hung"]
    /\ UNCHANGED <<env, proxyInitialized, dirs, procs, cleanups, installs, warnings,
                   lastStop, host>>

\* the subordinate of a pending fetch has exited: the connection is reset and
\* the fetch rejects, line 329
FetchReset(c) ==
    /\ calls[c].pc = "hung"
    /\ ~procs[calls[c].proc].alive
    /\ calls' = [calls EXCEPT ![c].pc = "delay"]
    /\ UNCHANGED <<env, proxyInitialized, dirs, procs, cleanups, installs, warnings,
                   lastStop, host>>

\* delay(200) elapses: line 323, the next poll or line 334
DelayElapsed(c) ==
    /\ calls[c].pc = "delay"
    /\ LET attempt == calls[c].attempt + 1 IN
       calls' = IF attempt < maxAttempts
                THEN [calls EXCEPT ![c].attempt = attempt, ![c].pc = "fetch"]
                ELSE [Throw(c, "E_timeout") EXCEPT ![c].attempt = attempt]
    /\ UNCHANGED <<env, proxyInitialized, dirs, procs, cleanups, installs, warnings,
                   lastStop, host>>

\* line 449
ProxyBaseUrl(port) == <<"http://127.0.0.1:", port, "/anthropic">>

ProxiedEnv_KeepsHeaders(e, port, masterKey) ==
    [e EXCEPT ![ANTHROPIC_BASE_URL] = ProxyBaseUrl(port),
              ![ANTHROPIC_API_KEY] = masterKey]

\* lines 191-193: the downstream variables point at the proxy
ProxiedEnv(e, port, masterKey) ==
    [e EXCEPT ![ANTHROPIC_BASE_URL] = ProxyBaseUrl(port),
              ![ANTHROPIC_API_KEY] = masterKey,
              ![ANTHROPIC_CUSTOM_HEADERS] = Undefined]

\* lines 191-197: the orchestrator resumes with the handle
ConfigureFinish(c) ==
    /\ calls[c].pc = "handle"
    /\ env' = ProxiedEnv(env, calls[c].port, calls[c].masterKey)
    /\ cleanups' = Append(cleanups, calls[c].proc)
    /\ proxyInitialized' = TRUE
    /\ calls' = [calls EXCEPT ![c].pc = "returned", ![c].ret = "proxied"]
    /\ UNCHANGED <<dirs, procs, installs, warnings, lastStop, host>>

stop_ThrowsOnExited(pr) ==
    [proc |-> IF pr.alive THEN [pr EXCEPT !.killed = TRUE] ELSE pr,
     threw |-> ~pr.alive]

\* lines 444-446: proxyProcess.kill("SIGTERM").  ChildProcess.kill signals a
\* child that has not exited and returns false for one that has; it does not
\* wait and does not throw
stop(pr) ==
    [proc |-> IF pr.alive THEN [pr EXCEPT !.killed = TRUE] ELSE pr,
     threw |-> FALSE]

\* the host calls stop() of a handle startOpenRouterProxy returned to it
HostStop(c) ==
    /\ calls[c].kind = "start"
    /\ calls[c].pc = "returned"
    /\ LET p == calls[c].proc
           r == stop(procs[p])
       IN
       /\ procs' = [procs EXCEPT ![p] = r.proc]
       /\ lastStop' = [proc |-> p, before |-> procs[p], threw |-> r.threw]
    /\ UNCHANGED <<env, proxyInitialized, calls, dirs, cleanups, installs, warnings,
                   host>>

(***************************************************************************)
(* registerCleanup, lines 97-117: the handlers of the host's exit, SIGINT  *)
(* and SIGTERM.  A handler runs cleanup(), which runs stop() up to its end *)
(* before the first await gives the event loop back; what follows the      *)
(* await runs as microtasks, before any other event is taken.              *)
(***************************************************************************)
Signals == {"SIGINT", "SIGTERM"}

\* lines 112 and 115
ExitCode(sig) == IF sig = "SIGINT" THEN 130 ELSE 143

cleanup_NoCatch(threw) == [logged |-> FALSE, rejected |-> threw]

\* lines 98-104: the promise of cleanup() never rejects, a rejected stop() is
\* logged
cleanup(threw) == [logged |-> threw, rejected |-> FALSE]

\* every registered handler of one event calls its stop(); registerCleanup
\* knows nothing of the stop it is handed, so the calls in fails raise instead
StopAll(fails) ==
    [p \in 1..Len(procs) |->
        IF \E i \in 1..Len(cleanups) : cleanups[i] = p /\ i \notin fails
        THEN stop(procs[p]).proc
        ELSE procs[p]]

StopsBy(event) == {<<cleanups[i], event>> : i \in 1..Len(cleanups)}

\* lines 111-116: a signal is delivered.  Without a handler it ends the host;
\* with handlers each runs cleanup() up to the await of stop(), line 100
Signal(sig, fails) ==
    /\ host.status = "running"
    /\ fails \subseteq 1..Len(cleanups)
    /\ IF cleanups = <<>>
       THEN /\ host' = [host EXCEPT !.status = "killed", !.sig = sig]
            /\ UNCHANGED procs
       ELSE /\ host' = [host EXCEPT !.status = "cleaning", !.sig = sig,
                                    !.stops = StopsBy("signal"), !.rejected = fails]
            /\ procs' = StopAll(fails)
    /\ UNCHANGED <<env, proxyInitialized, calls, dirs, cleanups, installs, warnings,
                   lastStop>>

\* the "exit" event, lines 106-110: each handler calls cleanup() and with it
\* stop(); the process is gone before a catch of line 101 could log
ExitHandlers(code, fails, logs) ==
    /\ host' = [host EXCEPT !.status = "exited", !.code = code,
                            !.stops = host.stops \cup StopsBy("exit"),
                            !.logged = host.logged + logs,
                            !.rejected = {}]
    /\ procs' = StopAll(fails)

\* the microtasks of a signal handler: lines 100-103 for every cleanup, then
\* the first then() of line 112 or 115 calls process.exit.  A rejection
\* nobody handles ends the host with code 1
CleanupSettle(fails) ==
    /\ host.status = "cleaning"
    /\ fails \subseteq 1..Len(cleanups)
    /\ LET settled == [i \in 1..Len(cleanups) |-> cleanup(i \in host.rejected)] IN
       IF \E i \in 1..Len(cleanups) : settled[i].rejected
       THEN /\ host' = [host EXCEPT !.status = "crashed", !.code = 1]
            /\ UNCHANGED procs
       ELSE ExitHandlers(ExitCode(host.sig), fails,
                         Cardinality({i \in 1..Len(cleanups) : settled[i].logged}))
    /\ UNCHANGED <<env, proxyInitialized, calls, dirs, cleanups, installs, warnings,
                   lastStop>>

\* the host ends by itself, process.exit(0) or the end of its work
HostExit(fails) ==
    /\ host.status = "running"
    /\ fails \subseteq 1..Len(cleanups)
    /\ ExitHandlers(0, fails, 0)
    /\ UNCHANGED <<env, proxyInitialized, calls, dirs, cleanups, installs, warnings,
                   lastStop>>

(***************************************************************************)
(* The host                                                                *)
(***************************************************************************)
\* lines 74-76
Reset ==
    /\ proxyInitialized' = FALSE
    /\ UNCHANGED <<env, calls, dirs, procs, cleanups, installs, warnings, lastStop, host>>

\* values the host gives the variables the orchestrator reads
HostValues(n) ==
    CASE n = USE_OPENROUTER -> {Undefined, ONE, <<"0">>}
      [] n = OPENROUTER_API_KEY -> {Undefined, <<>>, <<"k">>}
      [] n = DISABLE_PROXY -> {Undefined, ONE}

HostNames == {USE_OPENROUTER, OPENROUTER_API_KEY, DISABLE_PROXY}

HostSetEnv(n, v) ==
    /\ env' = [env EXCEPT ![n] = v]
    /\ UNCHANGED <<proxyInitialized, calls, dirs, procs, cleanups, installs, warnings,
                   lastStop, host>>

\* what the downstream variables hold before the orchestrator runs
PriorEnvs ==
    { [n \in Downstream |-> Undefined],
      [n \in Downstream |->
          CASE n = ANTHROPIC_BASE_URL -> <<"https://api.example">>
            [] n = ANTHROPIC_API_KEY -> <<"a">>
            [] n = ANTHROPIC_CUSTOM_HEADERS -> <<"X-Test", COLON, SP, "Value">>] }

NoStop == [proc |-> 0, before |-> [owner |-> 0, alive |-> FALSE, killed |-> FALSE,
                                   taken |-> FALSE],
           threw |-> FALSE]

\* the host before any signal or exit: no signal taken, no stop() made by a
\* handler, no stop() of a handler rejected, nothing logged by cleanup
HostRunning == [status |-> "running", sig |-> "none", code |-> 0, stops |-> {},
                rejected |-> {}, logged |-> 0]

EnvOf(use, key, dis, prior) ==
    [n \in EnvNames |->
        CASE n = USE_OPENROUTER -> use
          [] n = OPENROUTER_API_KEY -> key
          [] n = DISABLE_PROXY -> dis
          [] n \in Downstream -> prior[n]
          [] OTHER -> Undefined]

InitRest ==
    /\ proxyInitialized = FALSE
    /\ calls = [c \in Calls |-> IdleCall]
    /\ dirs = <<>>
    /\ procs = <<>>
    /\ cleanups = <<>>
    /\ installs = <<>>
    /\ warnings = 0
    /\ lastStop = NoStop
    /\ host = HostRunning

\* the host awaits each call: it calls, writes process.env and resets only
\* while no call is in flight, and before a call it goes on to make
Quiet == (\A c \in Calls : ~InFlight(c)) /\ (\E c \in Calls : calls[c].pc = "idle")

Init ==
    /\ \E use \in HostValues(USE_OPENROUTER), key \in HostValues(OPENROUTER_API_KEY),
          dis \in HostValues(DISABLE_PROXY), prior \in PriorEnvs :
         env = EnvOf(use, key, dis, prior)
    /\ InitRest

Supervise ==
    \/ \E c \in Calls, port \in Ports : PortListening(c, port)
    \/ \E c \in Calls : PortClosed(c)
    \/ \E c \in Calls, err \in BindErrors : PortError(c, err)
    \/ \E c \in Calls : PortRetry(c)
    \/ \E c \in Calls, r \in Rand : MkdtempOk(c, r)
    \/ \E c \in Calls : MkdtempFail(c)
    \/ \E c \in Calls : WriteOk(c)
    \/ \E c \in Calls : WriteFail(c)
    \/ \E c \in Calls, code \in ExitCodes : InstallExit(c, code)
    \/ \E c \in Calls : InstallError(c)
    \/ \E p \in Calls : ProcExit(p)
    \/ \E c \in Calls, r \in {"error", "notok", "ok"} : FetchSettle(c, r)
    \/ \E c \in Calls : FetchHang(c)
    \/ \E c \in Calls : FetchReset(c)
    \/ \E c \in Calls : DelayElapsed(c)

Next ==
    \/ \E c \in Calls : Quiet /\ Configure(c)
    \/ Supervise
    \/ \E c \in Calls : ConfigureFinish(c)
    \/ Quiet /\ Reset
    \/ \E n \in HostNames : \E v \in HostValues(n) : Quiet /\ HostSetEnv(n, v)

Spec == Init /\ [][Next]_vars

(***************************************************************************)
(* The host calls the exported startOpenRouterProxy itself, one call at a  *)
(* time, and stops the handles it holds.  startOpenRouterProxy reads and   *)
(* writes none of the downstream variables; they start populated.          *)
(***************************************************************************)
StartInit ==
    /\ \E dis \in HostValues(DISABLE_PROXY), prior \in PriorEnvs :
         /\ prior[ANTHROPIC_API_KEY] # Undefined
         /\ env = EnvOf(ONE, <<"k">>, dis, prior)
    /\ InitRest

StartNext ==
    \/ \E c \in Calls : Quiet /\ StartDirect(c)
    \/ Supervise
    \/ \E c \in Calls : HostStop(c)
    \/ \E v \in HostValues(DISABLE_PROXY) : Quiet /\ HostSetEnv(DISABLE_PROXY, v)

StartSpec == StartInit /\ [][StartNext]_vars

\* the event loop runs every callback that is due: a timer that was armed
\* fires, and a fetch the subordinate answers or refuses settles
StartFair ==
    \A c \in Calls :
        /\ WF_vars(DelayElapsed(c))
        /\ WF_vars(PortRetry(c))
        /\ WF_vars(FetchHang(c) \/ \E r \in {"error", "notok", "ok"} : FetchSettle(c, r))
        /\ WF_vars(FetchReset(c))

LiveSpec == StartSpec /\ StartFair

(***************************************************************************)
(* The host calls configureOpenRouterEnvironment again before an earlier   *)
(* call has settled.  The environment is benign here: binds, mkdtemp and   *)
(* writeFile succeed and the subordinate keeps running, so every behaviour *)
(* of ConcSpec is one the program has with overlapping calls.              *)
(***************************************************************************)
ConcInit ==
    /\ \E prior \in PriorEnvs : env = EnvOf(ONE, <<"k">>, Undefined, prior)
    /\ InitRest

ConcNext ==
    \/ \E c \in Calls : Configure(c)
    \/ \E c \in Calls, port \in Ports : PortListening(c, port)
    \/ \E c \in Calls : PortClosed(c)
    \/ \E c \in Calls, r \in Rand : MkdtempOk(c, r)
    \/ \E c \in Calls : WriteOk(c)
    \/ \E c \in Calls, code \in ExitCodes : InstallExit(c, code)
    \/ \E c \in Calls, r \in {"notok", "ok"} : FetchSettle(c, r)
    \/ \E c \in Calls : DelayElapsed(c)
    \/ \E c \in Calls : ConfigureFinish(c)

ConcSpec == ConcInit /\ [][ConcNext]_vars

(***************************************************************************)
(* The host configures, one call at a time, and is sent signals or exits.  *)
(* Once a signal handler has run, only its microtasks run in the host; a   *)
(* subordinate may exit at any time.  Binds, mkdtemp and writeFile succeed *)
(* here and a poll settles.                                                *)
(***************************************************************************)
Running == host.status = "running"

SigInit ==
    /\ \E prior \in PriorEnvs :
         /\ prior[ANTHROPIC_API_KEY] # Undefined
         /\ env = EnvOf(ONE, <<"k">>, Undefined, prior)
    /\ InitRest

SigNext ==
    \/ \E c \in Calls : Running /\ Quiet /\ Configure(c)
    \/ \E c \in Calls, port \in Ports : Running /\ PortListening(c, port)
    \/ \E c \in Calls : Running /\ PortClosed(c)
    \/ \E c \in Calls, r \in Rand : Running /\ MkdtempOk(c, r)
    \/ \E c \in Calls : Running /\ WriteOk(c)
    \/ \E c \in Calls, code \in ExitCodes : Running /\ InstallExit(c, code)
    \/ \E c \in Calls, r \in {"error", "notok", "ok"} : Running /\ FetchSettle(c, r)
    \/ \E c \in Calls : Running /\ DelayElapsed(c)
    \/ \E c \in Calls : Running /\ ConfigureFinish(c)
    \/ \E p \in Calls : ProcExit(p)
    \/ \E sig \in Signals : \E fails \in SUBSET (1..Len(cleanups)) : Signal(sig, fails)
    \/ \E fails \in SUBSET (1..Len(cleanups)) : CleanupSettle(fails)
    \/ \E fails \in SUBSET (1..Len(cleanups)) : HostExit(fails)

SigSpec == SigInit /\ [][SigNext]_vars

\* the microtasks a handler has queued run
SigFair == WF_vars(\E fails \in SUBSET (1..Len(cleanups)) : CleanupSettle(fails))

SigLive == SigSpec /\ SigFair

(***************************************************************************)
(* Direct mode: the host has set the feature flag, the key and             *)
(* CLAUDE_CODE_OPENROUTER_DISABLE_PROXY, and any of the optional           *)
(* variables; it configures, and may reset and configure again on what the *)
(* first call wrote.                                                       *)
(***************************************************************************)
\* one header line as a host writes it
HeaderLine(name, value) == <<name, COLON, SP, value>>

\* OPENROUTER_BASE_URL
BaseUrlInputs == {Undefined, <<>>, <<SP>>, <<SP, "https://proxy.example", SP>>}

\* OPENROUTER_SITE_URL
SiteUrlInputs == {Undefined, <<SP>>, <<"https://site.example">>}

\* OPENROUTER_APP_TITLE
AppTitleInputs == {Undefined, <<"My App", SP>>}

\* OPENROUTER_EXTRA_HEADERS: lines, a JSON object, or neither
ExtraInputs ==
    { Undefined,
      HeaderLine("X-Custom", "1"),
      HeaderLine("Authorization", "override"),
      <<"AUTHORIZATION", COLON, "override">>,
      <<LBRACE, QUOTE, "authorization", QUOTE, COLON, SP, QUOTE, "override", QUOTE,
        RBRACE>>,
      HeaderLine("http-referer", "https://other.example") \o <<NL>>
          \o HeaderLine("X-Custom", "1"),
      <<"Authorization">> }

\* ANTHROPIC_CUSTOM_HEADERS before the call
CustomInputs ==
    { Undefined,
      <<>>,
      HeaderLine("X-Test", "Value"),
      HeaderLine("authorization", "old") \o <<CR, NL>> \o HeaderLine("X-Test", "Value"),
      HeaderLine("X-Test", "Value") \o <<NL>> \o HeaderLine("x-test", "Second") }

\* ANTHROPIC_API_KEY before the call
ApiKeyInputs == {Undefined, <<>>, <<"a">>}

DirectInit ==
    /\ \E base \in BaseUrlInputs, site \in SiteUrlInputs, title \in AppTitleInputs,
          extra \in ExtraInputs, custom \in CustomInputs, key \in ApiKeyInputs :
         env = [n \in EnvNames |->
                  CASE n = USE_OPENROUTER -> ONE
                    [] n = OPENROUTER_API_KEY -> <<"k">>
                    [] n = DISABLE_PROXY -> ONE
                    [] n = OPENROUTER_BASE_URL -> base
                    [] n = OPENROUTER_SITE_URL -> site
                    [] n = OPENROUTER_APP_TITLE -> title
                    [] n = OPENROUTER_EXTRA_HEADERS -> extra
                    [] n = ANTHROPIC_CUSTOM_HEADERS -> custom
                    [] n = ANTHROPIC_API_KEY -> key
                    [] OTHER -> Undefined]
    /\ InitRest

DirectNext ==
    \/ \E c \in Calls : Quiet /\ Configure(c)
    \/ Quiet /\ proxyInitialized /\ Reset

DirectSpec == DirectInit /\ [][DirectNext]_vars

(***************************************************************************)
(* getAvailablePort alone: the host calls startOpenRouterProxy where no    *)
(* temp dir can be made, so a start ends at line 357, right after          *)
(* getAvailablePort has settled.                                           *)
(***************************************************************************)
PortNext ==
    \/ \E c \in Calls : Quiet /\ StartDirect(c)
    \/ \E c \in Calls, port \in Ports : PortListening(c, port)
    \/ \E c \in Calls : PortClosed(c)
    \/ \E c \in Calls, err \in BindErrors : PortError(c, err)
    \/ \E c \in Calls : PortRetry(c)
    \/ \E c \in Calls : MkdtempFail(c)
    \/ \E v \in HostValues(DISABLE_PROXY) : Quiet /\ HostSetEnv(DISABLE_PROXY, v)

PortSpec == StartInit /\ [][PortNext]_vars

\* a bind ends in "listening" or in "error", a close calls back, a timer fires
PortFair ==
    \A c \in Calls :
        /\ WF_vars((\E port \in Ports : PortListening(c, port))
                       \/ (\E err \in BindErrors : PortError(c, err)))
        /\ WF_vars(PortClosed(c))
        /\ WF_vars(PortRetry(c))

PortLive == PortSpec /\ PortFair

(***************************************************************************)
(* Config synthesis: the host has set the feature flag and the key and any *)
(* of the site URL, the app title and the extra headers, and configures in *)
(* proxied mode.  Binds, mkdtemp and writeFile succeed here and the first  *)
(* poll is answered.                                                       *)
(***************************************************************************)
\* OPENROUTER_EXTRA_HEADERS
ProxyExtraInputs ==
    { Undefined,
      HeaderLine("X-Custom", "1"),
      HeaderLine("HTTP-Referer", "https://other.example"),
      HeaderLine("http-referer", "https://other.example"),
      <<"X-Custom", COLON, SP, "a", QUOTE, "b">>,
      <<"X-Custom", COLON, SP, QUOTE, "a", QUOTE>>,
      <<LBRACE, QUOTE, "x-title", QUOTE, COLON, QUOTE, "Other", QUOTE, COMMA, SP,
        QUOTE, "X-Custom", QUOTE, COLON, QUOTE, "1", QUOTE, RBRACE>> }

SynthInit ==
    /\ \E site \in SiteUrlInputs, title \in AppTitleInputs, extra \in ProxyExtraInputs :
         env = [n \in EnvNames |->
                  CASE n = USE_OPENROUTER -> ONE
                    [] n = OPENROUTER_API_KEY -> <<"k">>
                    [] n = OPENROUTER_SITE_URL -> site
                    [] n = OPENROUTER_APP_TITLE -> title
                    [] n = OPENROUTER_EXTRA_HEADERS -> extra
                    [] OTHER -> Undefined]
    /\ InitRest

SynthNext ==
    \/ \E c \in Calls : Quiet /\ Configure(c)
    \/ \E c \in Calls, port \in Ports : PortListening(c, port)
    \/ \E c \in Calls : PortClosed(c)
    \/ \E c \in Calls, r \in Rand : MkdtempOk(c, r)
    \/ \E c \in Calls : WriteOk(c)
    \/ \E c \in Calls, code \in ExitCodes : InstallExit(c, code)
    \/ \E c \in Calls : FetchSettle(c, "ok")
    \/ \E c \in Calls : ConfigureFinish(c)

SynthSpec == SynthInit /\ [][SynthNext]_vars

(***************************************************************************)
(* Header parsing: the host sets OPENROUTER_EXTRA_HEADERS to a text that   *)
(* is malformed in some way and configures, in direct mode (the            *)
(* orchestrator's parser) or in proxied mode (the supervisor's parser).    *)
(***************************************************************************)
MalformedInputs ==
    { <<LBRACE, "oops", RBRACE>>,
      <<LBRACE, "oops", RBRACE, NL>> \o HeaderLine("X-Custom", "1"),
      <<"null">>,
      <<"5">>,
      <<QUOTE, "X-Custom", COLON, SP, "1", QUOTE>>,
      <<LBRACKET, QUOTE, "X-Custom", COLON, SP, "1", QUOTE, RBRACKET>>,
      <<"NoColon", NL, COLON, SP, "novalue", NL, "name", COLON, CR, NL>>
          \o HeaderLine("X-Custom", "1"),
      <<LBRACE, QUOTE, "X-Custom", QUOTE, COLON, QUOTE, "1", QUOTE, COMMA,
        QUOTE, "n", QUOTE, COLON, "5", RBRACE>> }

ParseInit ==
    /\ \E dis \in HostValues(DISABLE_PROXY), extra \in MalformedInputs :
         env = [n \in EnvNames |->
                  CASE n = USE_OPENROUTER -> ONE
                    [] n = OPENROUTER_API_KEY -> <<"k">>
                    [] n = DISABLE_PROXY -> dis
                    [] n = OPENROUTER_EXTRA_HEADERS -> extra
                    [] OTHER -> Undefined]
    /\ InitRest

ParseNext ==
    \/ \E c \in Calls : Quiet /\ Configure(c)
    \/ Quiet /\ proxyInitialized /\ Reset
    \/ \E c \in Calls, port \in Ports : PortListening(c, port)
    \/ \E c \in Calls : PortClosed(c)
    \/ \E c \in Calls, r \in Rand : MkdtempOk(c, r)
    \/ \E c \in Calls : WriteOk(c)
    \/ \E c \in Calls, code \in ExitCodes : InstallExit(c, code)
    \/ \E c \in Calls : FetchSettle(c, "ok")
    \/ \E c \in Calls : ConfigureFinish(c)

ParseSpec == ParseInit /\ [][ParseNext]_vars

(***************************************************************************)
(* Model list synthesis: as above, with the host's choice of               *)
(* ANTHROPIC_MODEL, INPUT_CLAUDE_ARGS and OPENROUTER_ADDITIONAL_MODELS.    *)
(***************************************************************************)
ModelInputs ==
    { Undefined, <<SP>>,
      <<SP, "openai/gpt-4o", SP>>,
      <<"anthropic/claude-3.5-haiku">> }

ClaudeArgsInputs ==
    { Undefined,
      <<"--max-turns", SP, "5">>,
      <<"--max-turns", SP, "5", SP, "--model", SP, SP, "x/custom", SP, "--verbose">> }

AdditionalInputs ==
    { Undefined,
      <<"a/m1", COMMA, SP, "a/m2", NL, "a/m1">>,
      <<COMMA, SP, COMMA, "anthropic/claude-sonnet-4", SP, NL>>,
      <<"x/custom", COMMA, "openai/gpt-4o", NL, SP, "a/m1">> }

ModelInit ==
    /\ \E model \in ModelInputs, args \in ClaudeArgsInputs, more \in AdditionalInputs :
         env = [n \in EnvNames |->
                  CASE n = USE_OPENROUTER -> ONE
                    [] n = OPENROUTER_API_KEY -> <<"k">>
                    [] n = ANTHROPIC_MODEL -> model
                    [] n = INPUT_CLAUDE_ARGS -> args
                    [] n = OPENROUTER_ADDITIONAL_MODELS -> more
                    [] OTHER -> Undefined]
    /\ InitRest

ModelNext ==
    \/ \E c \in Calls : Quiet /\ Configure(c)
    \/ \E c \in Calls, port \in Ports : PortListening(c, port)
    \/ \E c \in Calls : PortClosed(c)
    \/ \E c \in Calls, r \in Rand : MkdtempOk(c, r)
    \/ \E c \in Calls : WriteOk(c)
    \/ \E c \in Calls, code \in ExitCodes : InstallExit(c, code)
    \/ \E c \in Calls : FetchSettle(c, "ok")
    \/ \E c \in Calls : ConfigureFinish(c)

ModelSpec == ModelInit /\ [][ModelNext]_vars

(***************************************************************************)
(* The subordinate against the port: the host calls startOpenRouterProxy,  *)
(* one call at a time; the subordinate may exit while it is polled, by     *)
(* itself or because another process holds the port.                       *)
(***************************************************************************)
BindNext ==
    \/ \E c \in Calls : Quiet /\ StartDirect(c)
    \/ \E c \in Calls, port \in Ports : PortListening(c, port)
    \/ \E c \in Calls : PortClosed(c)
    \/ \E c \in Calls, r \in Rand : MkdtempOk(c, r)
    \/ \E c \in Calls : WriteOk(c)
    \/ \E c \in Calls, code \in ExitCodes : InstallExit(c, code)
    \/ \E p \in Calls : ProcExit(p)
    \/ \E p \in Calls : ProcBindFail(p)
    \/ \E c \in Calls, r \in {"error", "notok", "ok"} : FetchSettle(c, r)
    \/ \E c \in Calls : DelayElapsed(c)

BindSpec == SigInit /\ [][BindNext]_vars

(***************************************************************************)
(* Properties                                                              *)
(***************************************************************************)
\* a call is made in this step
Begins(c) == calls[c].pc = "idle" /\ calls'[c].pc # "idle"

\* what a call can have an effect on, besides the calls themselves
Effects == <<env, proxyInitialized, dirs, procs, cleanups, installs, warnings>>

\* C1: a call of configureOpenRouterEnvironment made while the flag is set
\* returns at once and changes no environment variable, dir, process, handler
\* or install, whatever process.env holds; and no step of a call clears the
\* flag, only __resetOpenRouterProxyForTests does.
C1_InitializedCallIsNoOp ==
    [][ /\ \A c \in Calls :
              (proxyInitialized /\ Begins(c)) =>
                  /\ calls'[c].pc = "returned"
                  /\ calls'[c].ret = "already"
                  /\ UNCHANGED Effects
        /\ (proxyInitialized /\ ~proxyInitialized') =>
              UNCHANGED <<env, calls, dirs, procs, cleanups, installs, warnings>>
      ]_vars

\* a call returned as a no-op although process.env asks for a proxied start
C1_Witness ==
    \E c, d \in Calls :
        /\ calls[d].ret \in {"direct", "proxied"}
        /\ calls[c].ret = "already"
        /\ env[USE_OPENROUTER] = ONE
        /\ env[OPENROUTER_API_KEY] = <<"k">>
        /\ env[DISABLE_PROXY] = Undefined

\* C2: a call made while CLAUDE_CODE_USE_OPENROUTER is not "1" returns at once,
\* writes no environment variable, spawns nothing and leaves the flag as it is,
\* also when OPENROUTER_API_KEY is set.
C2_FlagOffIsNoOp ==
    [][ \A c \in Calls :
            (Begins(c) /\ env[USE_OPENROUTER] # ONE) =>
                /\ calls'[c].pc = "returned"
                /\ calls'[c].ret \in {"flagoff", "already"}
                /\ UNCHANGED Effects
      ]_vars

\* a call skipped for the flag, with the key present and a flag value other than "1"
C2_Witness ==
    \E c \in Calls :
        /\ calls[c].ret = "flagoff"
        /\ env[USE_OPENROUTER] = <<"0">>
        /\ env[OPENROUTER_API_KEY] = <<"k">>
        /\ ~proxyInitialized

\* C3: a call made with the flag enabled and OPENROUTER_API_KEY absent or empty
\* warns once, returns without throwing, writes nothing, starts nothing and
\* leaves the flag unset; a later call, made with the key set, configures.
C3_MissingKeyWarns ==
    [][ \A c \in Calls :
            (Begins(c) /\ ~proxyInitialized /\ env[USE_OPENROUTER] = ONE) =>
                IF env[OPENROUTER_API_KEY] \in {Undefined, <<>>}
                THEN /\ calls'[c].pc = "returned"
                     /\ calls'[c].ret = "nokey"
                     /\ warnings' = warnings + 1
                     /\ UNCHANGED <<env, proxyInitialized, dirs, procs, cleanups, installs>>
                ELSE \/ calls'[c].ret = "direct" /\ proxyInitialized'
                     \/ calls'[c].pc = "port"
      ]_vars

\* a call warned about the empty key, and the next one configured
C3_Witness ==
    \E c, d \in Calls :
        /\ d < c
        /\ calls[d].ret = "nokey"
        /\ warnings = 1
        /\ calls[c].ret \in {"direct", "proxied"}

\* the awaits inside startOpenRouterProxy
StartPcs == {"port", "portclose", "portretry", "mkdtemp", "write", "install",
             "fetch", "hung", "delay"}

\* C4: every step of a proxied-mode call up to and including the one that
\* throws leaves the flag false, registers no handler and leaves the three
\* downstream variables as they were; the error ends the call.
C4_FailedStartChangesNothing ==
    [][ \A c \in Calls :
            (/\ calls'[c] # calls[c]
             /\ calls'[c].kind = "configure"
             /\ calls'[c].pc \in StartPcs \cup {"threw"}) =>
                /\ UNCHANGED <<env, cleanups, proxyInitialized>>
                /\ ~proxyInitialized'
                /\ calls'[c].pc = "threw" =>
                      calls'[c].ret \in {"E_port", "E_mkdtemp", "E_write", "E_install",
                                         "E_timeout"}
      ]_vars

\* a proxied-mode call timed out waiting for readiness, with downstream values set before
C4_Witness ==
    \E c \in Calls :
        /\ calls[c].kind = "configure"
        /\ calls[c].ret = "E_timeout"
        /\ env[ANTHROPIC_CUSTOM_HEADERS] = <<"X-Test", COLON, SP, "Value">>
        /\ ~proxyInitialized
        /\ cleanups = <<>>

\* C5: without a reset at most one subordinate is spawned and the handlers are
\* registered at most once, also when calls overlap.
C5_Serialized == Len(procs) <= 1 /\ Len(cleanups) <= 1

\* the keys startOpenRouterProxy can generate
MasterKeys == {<<"sk-litellm-proxy-", r>> : r \in Rand}

\* the call has a config file on disk
ConfigWritten(c) == calls[c].dir # 0 /\ dirs[calls[c].dir].config # NoConfig

\* the install of call c has exited with code 0
Installed(c) == \E i \in 1..Len(installs) : installs[i].owner = c /\ installs[i].code = "0"

\* C6: in every run of startOpenRouterProxy the config on disk is the one
\* synthesized, a subordinate exists only once the file is written, a poll is
\* issued only once the subordinate exists, and a handle is returned only
\* after a poll was answered OK.
C6_SupervisorOrder ==
    \A c \in Calls :
        /\ ConfigWritten(c) =>
              /\ dirs[calls[c].dir].config.masterKey \in MasterKeys
              /\ dirs[calls[c].dir].config.apiKey # Undefined
              /\ calls[c].pc # "threw" =>
                    dirs[calls[c].dir].config = Config(c, calls[c].masterKey)
        /\ calls[c].proc # 0 => ConfigWritten(c)
        /\ (calls[c].pc \in {"fetch", "hung", "delay"} \/ calls[c].response # "none") =>
              calls[c].proc # 0
        /\ (calls[c].pc = "handle" \/ calls[c].ret \in {"handle", "proxied"}) =>
              /\ calls[c].response = "ok"
              /\ calls[c].proc # 0

\* a proxied configure went through to the end: file, subordinate, OK poll, handle
C6_Witness ==
    \E c \in Calls :
        /\ calls[c].ret = "proxied"
        /\ calls[c].proc # 0
        /\ ConfigWritten(c)

C8_DisabledFailsFast ==
    [][ \A c \in Calls :
            (Begins(c) /\ calls'[c].kind = "start" /\ env[DISABLE_PROXY] = ONE) =>
                /\ calls'[c].pc = "threw"
                /\ calls'[c].ret = "E_disabled"
                /\ calls'[c].port = "none"
                /\ calls'[c].dir = 0
                /\ calls'[c].proc = 0
                /\ UNCHANGED Effects
      ]_vars

\* a direct start was refused
C8_Witness == \E c \in Calls : calls[c].kind = "start" /\ calls[c].ret = "E_disabled"

\* C9: once waitForProxy has issued a poll it ends, by returning or by throwing.
C9_PollingTerminates ==
    \A c \in Calls :
        (calls[c].pc = "fetch") ~> (calls[c].pc \in {"returned", "threw"})

\* C10: a stop() never throws, leaves the subordinate running or exited as it
\* was (it does not wait), touches nothing but that one process, and changes
\* nothing at all when the process was already signalled or has exited.
C10_StopIdempotent ==
    /\ [](~lastStop.threw)
    /\ [][ lastStop' # lastStop =>
                   LET p == lastStop'.proc IN
                   /\ lastStop'.before = procs[p]
                   /\ procs'[p].alive = procs[p].alive
                   /\ \A q \in 1..Len(procs) : q # p => procs'[q] = procs[q]
                   /\ (procs[p].killed \/ ~procs[p].alive) => procs' = procs
                   /\ stop(stop(procs[p]).proc).proc = procs'[p]
                   /\ UNCHANGED <<env, proxyInitialized, dirs, cleanups, installs, warnings>>
         ]_vars

\* the last stop() was made on a subordinate that had been signalled and has exited
C10_Witness ==
    /\ lastStop.proc # 0
    /\ lastStop.before.killed
    /\ ~lastStop.before.alive

\* C11: with cleanup handlers registered, a SIGINT (SIGTERM) makes every
\* registered stop() run first, the host then exits with 130 (143) and with
\* nothing else; a stop() that rejects in the handler is logged and does not
\* keep the host from exiting, and the stop() calls of the exit handlers do
\* not change the exit either.
C11_SignalStopsThenExits ==
    /\ [](host.status # "crashed")
    /\ [](host.status = "cleaning" =>
             /\ cleanups # <<>>
             /\ host.stops = StopsBy("signal")
             /\ \A i \in 1..Len(cleanups) :
                    i \notin host.rejected =>
                        procs[cleanups[i]].killed \/ ~procs[cleanups[i]].alive)
    /\ []((host.status = "exited" /\ host.sig = "SIGINT") => host.code = 130)
    /\ []((host.status = "exited" /\ host.sig = "SIGTERM") => host.code = 143)
    /\ []((host.status = "exited" /\ host.sig \in Signals) =>
             host.stops = StopsBy("signal") \cup StopsBy("exit"))
    /\ [][ (Running /\ host'.sig \in Signals /\ cleanups # <<>>) =>
               host'.status = "cleaning" ]_vars
    /\ [][ (host.status = "cleaning" /\ host' # host) =>
               /\ host'.status = "exited"
               /\ host'.logged = host.logged + Cardinality(host.rejected) ]_vars
    /\ (host.status = "cleaning") ~> (host.status = "exited")

\* the host took a SIGTERM, a stop() rejected in the handler and was logged,
\* and the host exited
C11_Witness ==
    /\ host.status = "exited"
    /\ host.sig = "SIGTERM"
    /\ host.code = 143
    /\ host.logged > 0

\* a string holds the atom
Holds(v, atom) == v # Undefined /\ \E i \in 1..Len(v) : v[i] = atom

\* C12: the step that completes a proxied configure leaves ANTHROPIC_BASE_URL
\* at http://127.0.0.1:<port>/anthropic for the port the call allocated,
\* ANTHROPIC_API_KEY at the master key the call generated, which is not empty
\* and is not the upstream key, and ANTHROPIC_CUSTOM_HEADERS unset; no
\* downstream variable holds the upstream key.
C12_ProxiedEnvironment ==
    [][ \A c \in Calls :
            (calls[c].pc = "handle" /\ calls'[c].ret = "proxied") =>
                /\ calls[c].port \in Ports
                /\ env'[ANTHROPIC_BASE_URL] =
                       <<"http://127.0.0.1:", calls[c].port, "/anthropic">>
                /\ env'[ANTHROPIC_API_KEY] = calls[c].masterKey
                /\ env'[ANTHROPIC_API_KEY] = dirs[calls[c].dir].config.masterKey
                /\ env'[ANTHROPIC_API_KEY] \in MasterKeys
                /\ env'[ANTHROPIC_API_KEY] # <<>>
                /\ env'[ANTHROPIC_API_KEY] # calls[c].apiKey
                /\ env'[ANTHROPIC_API_KEY] # env'[OPENROUTER_API_KEY]
                /\ env'[ANTHROPIC_CUSTOM_HEADERS] = Undefined
                /\ \A n \in Downstream : \A i \in 1..Len(calls[c].apiKey) :
                       ~Holds(env'[n], calls[c].apiKey[i])
      ]_vars

\* a direct configure put the upstream key in the downstream headers, and
\* after a reset a proxied configure has replaced all three variables
C12_Witness ==
    \E c, d \in Calls :
        /\ calls[d].ret = "direct"
        /\ calls[c].ret = "proxied"
        /\ env[ANTHROPIC_API_KEY] = calls[c].masterKey
        /\ env[ANTHROPIC_BASE_URL] = ProxyBaseUrl(calls[c].port)
        /\ env[ANTHROPIC_CUSTOM_HEADERS] = Undefined

\* a call configures in direct mode in this step
DirectStep(c) == Begins(c) /\ calls'[c].ret = "direct"

LinesOf(v) == IF Falsy(v) THEN <<>> ELSE SplitLines(v)

LineName(line) == ToLower(SubSeq(line, 1, IndexOf(line, COLON) - 1))

LineValue(line) == SubSeq(line, IndexOf(line, COLON) + 2, Len(line))

ValuesOf(v, key) ==
    {LineValue(LinesOf(v)[i]) : i \in {j \in 1..Len(LinesOf(v)) : LineName(LinesOf(v)[j]) = key}}

\* the extra headers of ExtraInputs that name Authorization
AuthOverrides ==
    { HeaderLine("Authorization", "override"),
      <<"AUTHORIZATION", COLON, "override">>,
      <<LBRACE, QUOTE, "authorization", QUOTE, COLON, SP, QUOTE, "override", QUOTE,
        RBRACE>> }

\* the extra headers of ExtraInputs that name HTTP-Referer
RefererOverrides ==
    { HeaderLine("http-referer", "https://other.example") \o <<NL>>
          \o HeaderLine("X-Custom", "1") }

\* C14: after a direct-mode configure the Authorization header is the one of
\* the extra headers when they name it, in any letter case, and else
\* "Bearer <key>", whatever Authorization ANTHROPIC_CUSTOM_HEADERS held; the
\* referer is the one of the extra headers when they name it and else the
\* site URL; the title is the app title; a custom header nobody overrides
\* stays.
C14_HeaderPrecedence ==
    [][ \A c \in Calls :
            DirectStep(c) =>
                LET out == env'[ANTHROPIC_CUSTOM_HEADERS]
                    extra == env[OPENROUTER_EXTRA_HEADERS]
                IN
                /\ extra \in AuthOverrides =>
                       ValuesOf(out, <<"authorization">>) = {<<"override">>}
                /\ extra \notin AuthOverrides =>
                       ValuesOf(out, <<"authorization">>) = {<<"Bearer", SP, "k">>}
                /\ extra \in RefererOverrides =>
                       ValuesOf(out, <<"http-referer">>) = {<<"https://other.example">>}
                /\ (extra \notin RefererOverrides
                        /\ env[OPENROUTER_SITE_URL] = <<"https://site.example">>) =>
                       ValuesOf(out, <<"http-referer">>) = {<<"https://site.example">>}
                /\ (extra \notin RefererOverrides /\ env[OPENROUTER_SITE_URL] \in {Undefined, <<SP>>}
                        /\ ValuesOf(env[ANTHROPIC_CUSTOM_HEADERS], <<"http-referer">>) = {}) =>
                       ValuesOf(out, <<"http-referer">>) = {}
                /\ env[OPENROUTER_APP_TITLE] = <<"My App", SP>> =>
                       ValuesOf(out, <<"x-title">>) = {<<"My App">>}
                /\ env[ANTHROPIC_CUSTOM_HEADERS] = HeaderLine("X-Test", "Value") =>
                       ValuesOf(out, <<"x-test">>) = {<<"Value">>}
      ]_vars

\* a direct configure whose custom headers held an Authorization and whose
\* extra headers override it in upper case
C14_Witness ==
    \E c \in Calls :
        /\ calls[c].ret = "direct"
        /\ env[OPENROUTER_EXTRA_HEADERS] = <<"AUTHORIZATION", COLON, "override">>
        /\ env[ANTHROPIC_CUSTOM_HEADERS] =
               HeaderLine("AUTHORIZATION", "override") \o <<NL>> \o HeaderLine("X-Test", "Value")

\* the lower-cased names of the lines of a serialized header set, in order
NamesOf(v) == [i \in 1..Len(LinesOf(v)) |-> LineName(LinesOf(v)[i])]

\* the names a host's input of CustomInputs or ExtraInputs gives, in order
InputNames(raw) ==
    CASE raw = HeaderLine("X-Test", "Value") -> << <<"x-test">> >>
      [] raw = HeaderLine("authorization", "old") \o <<CR, NL>>
                   \o HeaderLine("X-Test", "Value") -> << <<"authorization">>, <<"x-test">> >>
      [] raw = HeaderLine("X-Test", "Value") \o <<NL>>
                   \o HeaderLine("x-test", "Second") -> << <<"x-test">> >>
      [] raw = HeaderLine("X-Custom", "1") -> << <<"x-custom">> >>
      [] raw \in AuthOverrides -> << <<"authorization">> >>
      [] raw \in RefererOverrides -> << <<"http-referer">>, <<"x-custom">> >>
      [] OTHER -> <<>>

\* a sequence without the later occurrences of its elements
RECURSIVE FirstOccurrences(_, _)
FirstOccurrences(seq, seen) ==
    IF seq = <<>> THEN <<>>
    ELSE IF Head(seq) \in seen THEN FirstOccurrences(Tail(seq), seen)
    ELSE <<Head(seq)>> \o FirstOccurrences(Tail(seq), seen \cup {Head(seq)})

\* the names in the order the direct branch first inserts them
InsertionOrder(e) ==
    FirstOccurrences(
        InputNames(e[ANTHROPIC_CUSTOM_HEADERS])
            \o << <<"authorization">> >>
            \o (IF e[OPENROUTER_SITE_URL] = <<"https://site.example">>
                THEN << <<"http-referer">> >> ELSE <<>>)
            \o (IF e[OPENROUTER_APP_TITLE] = Undefined THEN <<>> ELSE << <<"x-title">> >>)
            \o InputNames(e[OPENROUTER_EXTRA_HEADERS]),
        {})

\* C15: the header set a direct-mode configure writes has one line per
\* case-insensitive name, in the order the names were first inserted (custom
\* headers, Authorization, referer, title, extra headers): "X-Test: Value"
\* comes before an appended Authorization, a later value of X-Test or of
\* Authorization takes the place its name already had, and configuring again on
\* the result moves nothing.
C15_HeaderMapOrder ==
    [][ \A c \in Calls :
            DirectStep(c) =>
                LET out == env'[ANTHROPIC_CUSTOM_HEADERS]
                    names == NamesOf(out)
                IN
                /\ \A i, j \in 1..Len(names) : names[i] = names[j] => i = j
                /\ env[ANTHROPIC_CUSTOM_HEADERS] \in CustomInputs =>
                       names = InsertionOrder(env)
                /\ env[ANTHROPIC_CUSTOM_HEADERS] \notin CustomInputs =>
                       out = env[ANTHROPIC_CUSTOM_HEADERS]
                /\ (env[ANTHROPIC_CUSTOM_HEADERS] = HeaderLine("X-Test", "Value")
                        /\ env[OPENROUTER_EXTRA_HEADERS] = Undefined) =>
                       SubSeq(LinesOf(out), 1, 2) =
                           << HeaderLine("X-Test", "Value"),
                              <<"Authorization", COLON, SP, "Bearer", SP, "k">> >>
                /\ (env[ANTHROPIC_CUSTOM_HEADERS] =
                        HeaderLine("X-Test", "Value") \o <<NL>> \o HeaderLine("x-test", "Second")) =>
                       LinesOf(out)[1] = HeaderLine("x-test", "Second")
                /\ (env[ANTHROPIC_CUSTOM_HEADERS] = HeaderLine("X-Test", "Value")
                        /\ env[OPENROUTER_EXTRA_HEADERS] = HeaderLine("Authorization", "override")) =>
                       LinesOf(out)[2] = HeaderLine("Authorization", "override")
      ]_vars

\* custom headers that began with an Authorization, a site URL, and extra
\* headers that override the Authorization: it is still the first line
C15_Witness ==
    \E c \in Calls :
        /\ calls[c].ret = "direct"
        /\ env[OPENROUTER_SITE_URL] = <<"https://site.example">>
        /\ env[OPENROUTER_EXTRA_HEADERS] = HeaderLine("Authorization", "override")
        /\ env[OPENROUTER_APP_TITLE] = Undefined
        /\ LinesOf(env[ANTHROPIC_CUSTOM_HEADERS]) =
               << HeaderLine("Authorization", "override"),
                  HeaderLine("X-Test", "Value"),
                  HeaderLine("HTTP-Referer", "https://site.example") >>

\* the call is inside getAvailablePort
InPort(c) == calls[c].pc \in {"port", "portclose", "portretry"}

\* C16: getAvailablePort settles: it resolves with the port of the first bind
\* that listens, after that socket is closed; a bind that fails is retried
\* while no more than 5 have failed, and the 6th failure rejects with that
\* failure's error; no probing socket is open once it has settled.
C16_PortAllocationTerminates ==
    /\ [](\A c \in Calls :
             /\ calls[c].tries <= 6
             /\ calls[c].pc = "portretry" => calls[c].tries \in 1..5
             /\ calls[c].ret = "E_port" =>
                    calls[c].tries = 6 /\ calls[c].err \in BindErrors
             /\ calls[c].err # "none" => calls[c].ret = "E_port"
             /\ calls[c].socket = "listening" <=> calls[c].pc = "portclose"
             /\ calls[c].socket = "binding" <=> calls[c].pc = "port"
             /\ (~InPort(c) /\ calls[c].pc # "idle" /\ calls[c].ret # "E_disabled") =>
                    calls[c].socket = "closed")
    /\ [][ \A c \in Calls :
               /\ (calls[c].pc = "portclose" /\ calls'[c].pc # "portclose") =>
                      /\ calls'[c].pc = "mkdtemp"
                      /\ calls'[c].port = calls[c].port
                      /\ calls'[c].port \in Ports
               /\ (calls[c].pc = "port" /\ calls'[c].pc = "portclose") =>
                      calls'[c].port \in Ports
               /\ (InPort(c) /\ calls'[c].pc = "threw") =>
                      calls'[c].ret = "E_port" /\ calls[c].tries = 5
         ]_vars
    /\ \A c \in Calls : InPort(c) ~> ~InPort(c)

\* a start whose six binds all failed, and one that got a port after a retry
C16_Witness ==
    \E c, d \in Calls :
        /\ calls[c].ret = "E_port"
        /\ calls[c].tries = 6
        /\ calls[c].socket = "closed"
        /\ calls[d].pc = "mkdtemp"
        /\ calls[d].tries = 0
        /\ calls[d].port \in Ports
        /\ calls[d].socket = "closed"

\* the name, as written, and the scalar of one line under extra_headers
YamlName(line) == SubSeq(line, 2, IndexOf(line, COLON) - 1)

YamlScalar(line) == SubSeq(line, IndexOf(line, COLON) + 2, Len(line))

\* the config files written so far
Written == {d \in 1..Len(dirs) : dirs[d].config # NoConfig}

\* C17: the header set of a written config has one entry per case-insensitive
\* name, and an extra header that names HTTP-Referer in any letter case is the
\* only referer of the set.
C17_ProxyHeadersUnique ==
    \A d \in Written :
        LET lines == dirs[d].config.headers IN
        /\ \A i, j \in 1..Len(lines) :
               ToLower(YamlName(lines[i])) = ToLower(YamlName(lines[j])) => i = j
        /\ env[OPENROUTER_EXTRA_HEADERS] \in
               {HeaderLine("HTTP-Referer", "https://other.example"),
                HeaderLine("http-referer", "https://other.example")} =>
               \A i \in 1..Len(lines) :
                   ToLower(YamlName(lines[i])) = <<"http-referer">> =>
                       YamlScalar(lines[i]) = <<QUOTE, "https://other.example", QUOTE>>

\* C18: in a written config every quote inside a header value has a backslash
\* before it, so that the scalar of a header line ends at its last character.
C18_QuotesEscaped ==
    \A d \in Written :
        \A i \in 1..Len(dirs[d].config.headers) :
            LET scalar == YamlScalar(dirs[d].config.headers[i]) IN
            /\ scalar[1] = QUOTE
            /\ scalar[Len(scalar)] = QUOTE
            /\ \A k \in 2..(Len(scalar) - 1) :
                   scalar[k] = QUOTE => scalar[k - 1] = BACKSLASH


\* the host has exited and every subordinate it started was stopped by its
\* cleanup and is gone
HostGone ==
    /\ host.status = "exited"
    /\ cleanups # <<>>
    /\ \A i \in 1..Len(cleanups) :
           /\ <<cleanups[i], "exit">> \in host.stops
           /\ procs[cleanups[i]].killed
           /\ ~procs[cleanups[i]].alive

\* C19: after the host has stopped the subordinate and has exited, no config
\* file that holds a master key or the upstream API key is left in a temporary
\* working directory.
C19_KeyNotPersisted ==
    HostGone =>
        \A d \in Written :
            /\ dirs[d].config.masterKey \notin MasterKeys
            /\ dirs[d].config.apiKey # env[OPENROUTER_API_KEY]


\* a handle is returned in this step, to the host or to the orchestrator
HandleReturned(c) ==
    /\ calls[c].pc = "fetch"
    /\ calls'[c].pc \in {"handle", "returned"}
    /\ calls'[c].response = "ok"

\* C20: the exit of a subordinate that has not reported healthy changes no
\* call by itself, and no step returns a handle whose subordinate has exited.
C20_NoHandleForExited ==
    [][ /\ (\E p \in 1..Len(procs) : procs[p].alive /\ ~procs'[p].alive) =>
               calls' = calls
        /\ \A c \in Calls :
               HandleReturned(c) => procs[calls[c].proc].alive ]_vars


\* the preferred model a host's input of ModelInputs and ClaudeArgsInputs gives
ExpectedPreferred(e) ==
    CASE e[ANTHROPIC_MODEL] = <<SP, "openai/gpt-4o", SP>> -> << <<"openai/gpt-4o">> >>
      [] e[ANTHROPIC_MODEL] = <<"anthropic/claude-3.5-haiku">> ->
             << <<"anthropic/claude-3.5-haiku">> >>
      [] OTHER -> IF Holds(e[INPUT_CLAUDE_ARGS], "--model")
                  THEN << <<"x/custom">> >> ELSE <<>>

\* the trimmed non-empty additional models a host's input of AdditionalInputs gives
ExpectedAdditional(raw) ==
    CASE raw = <<"a/m1", COMMA, SP, "a/m2", NL, "a/m1">> ->
             << <<"a/m1">>, <<"a/m2">>, <<"a/m1">> >>
      [] raw = <<COMMA, SP, COMMA, "anthropic/claude-sonnet-4", SP, NL>> ->
             << <<"anthropic/claude-sonnet-4">> >>
      [] raw = <<"x/custom", COMMA, "openai/gpt-4o", NL, SP, "a/m1">> ->
             << <<"x/custom">>, <<"openai/gpt-4o">>, <<"a/m1">> >>
      [] OTHER -> <<>>

\* defaults, then preferred, then additional, without later occurrences
ExpectedModels(e) ==
    FirstOccurrences(DEFAULT_MODELS \o ExpectedPreferred(e)
                         \o ExpectedAdditional(e[OPENROUTER_ADDITIONAL_MODELS]),
                     {})

\* C21: every config written holds the default models, then the preferred
\* model if one is given, then the trimmed non-empty additional models, each
\* once, at its first position; two configs written from the same inputs hold
\* the same list; supplying one more additional model that is already in the
\* list, with or without blanks around it, gives the same list.
C21_ModelList ==
    \A d \in Written :
        LET models == dirs[d].config.models
            more == parseAdditionalModels(env[OPENROUTER_ADDITIONAL_MODELS])
        IN
        /\ models = ExpectedModels(env)
        /\ \A i, j \in 1..Len(models) : models[i] = models[j] => i = j
        /\ \A d2 \in Written : dirs[d2].config.models = models
        /\ \A i \in 1..Len(models) :
               /\ AllModels(PreferredModel(env), Append(more, models[i])) = models
               /\ AllModels(PreferredModel(env),
                            Append(more, <<SP>> \o models[i] \o <<SP>>)) = models

C21_Witness ==
    /\ Cardinality(Written) = 2
    /\ env[ANTHROPIC_MODEL] = <<SP, "openai/gpt-4o", SP>>
    /\ env[OPENROUTER_ADDITIONAL_MODELS]
           = <<"x/custom", COMMA, "openai/gpt-4o", NL, SP, "a/m1">>
    /\ dirs[2].config.models
           = DEFAULT_MODELS \o << <<"openai/gpt-4o">>, <<"x/custom">>, <<"a/m1">> >>


\* the well-formed Name: Value lines of a host's input of MalformedInputs, or
\* the string members of the one that is a JSON object
ExpectedHeaders(raw) ==
    CASE raw = <<QUOTE, "X-Custom", COLON, SP, "1", QUOTE>> ->
             << [name |-> <<QUOTE, "X-Custom">>, value |-> <<"1", QUOTE>>] >>
      [] raw = <<LBRACKET, QUOTE, "X-Custom", COLON, SP, "1", QUOTE, RBRACKET>> ->
             << [name |-> <<LBRACKET, QUOTE, "X-Custom">>,
                 value |-> <<"1", QUOTE, RBRACKET>>] >>
      [] Holds(raw, "X-Custom") -> << [name |-> <<"X-Custom">>, value |-> <<"1">>] >>
      [] OTHER -> <<>>

\* the orchestrator's parser kept the expected headers, after Authorization
OrchestratorParsed ==
    (\E c \in Calls : calls[c].ret = "direct") =>
        env[ANTHROPIC_CUSTOM_HEADERS] =
            JoinLines(<< <<"Authorization", COLON, SP, "Bearer", SP, "k">> >>
                \o [i \in 1..Len(ExpectedHeaders(env[OPENROUTER_EXTRA_HEADERS])) |->
                      LET h == ExpectedHeaders(env[OPENROUTER_EXTRA_HEADERS])[i] IN
                      h.name \o <<COLON, SP>> \o h.value])

\* the supervisor's parser kept the expected headers, after the two defaults
SupervisorParsed ==
    \A d \in Written :
        LET lines == dirs[d].config.headers
            expected == ExpectedHeaders(env[OPENROUTER_EXTRA_HEADERS])
        IN
        /\ Len(lines) = 2 + Len(expected)
        /\ YamlName(lines[1]) = <<"HTTP-Referer">>
        /\ YamlName(lines[2]) = <<"X-Title">>
        /\ \A i \in 1..Len(expected) :
               /\ YamlName(lines[2 + i]) = expected[i].name
               /\ ~Holds(expected[i].value, QUOTE) =>
                      YamlScalar(lines[2 + i]) = <<QUOTE>> \o expected[i].value \o <<QUOTE>>

\* C22: for a malformed OPENROUTER_EXTRA_HEADERS (braces around no JSON, JSON
\* that is no object, lines with no colon, no name or no value) both parsers
\* return: a direct configure and a config write complete, and the headers
\* they give are the well-formed Name: Value lines of the input, nothing else.
C22_MalformedHeadersTolerated == OrchestratorParsed /\ SupervisorParsed


\* something in the host can still stop subordinate p: the call that spawned
\* it is still running, a cleanup handler is registered for it, or the host
\* was returned a handle to it
Stoppable(p) ==
    \/ InFlight(procs[p].owner)
    \/ \E i \in 1..Len(cleanups) : cleanups[i] = p
    \/ \E c \in Calls : /\ calls[c].kind = "start"
                        /\ calls[c].ret = "handle"
                        /\ calls[c].proc = p

\* C23: no subordinate is orphaned: in every reachable state every running
\* subordinate can still be stopped, also after the start that spawned it has
\* failed on the readiness timeout.
C23_NoOrphan == \A p \in 1..Len(procs) : procs[p].alive => Stoppable(p)

====
